---- MODULE Spec2Model ----
(***************************************************************************)
(* Alert_Hub backend, src/backend/app.py: a Flask application whose        *)
(* handlers each call zero or one upstream HTTP source through safe_get,   *)
(* normalise the answer and respond.                                       *)
(*                                                                         *)
(* One request is in flight at a time in the model: the handlers share no  *)
(* mutable state, so a request is an action from "idle" to "done" that     *)
(* runs the whole handler, and Finish discards the request-scoped values.  *)
(*                                                                         *)
(* Values.  Python/JSON values are pairs <<tag, value>>:                   *)
(*   None, Str(<<chars>>), Num(n), Obj(function from keys), Arr(sequence), *)
(*   Text (a body that is not JSON).                                       *)
(* Character strings that the code searches, slices or parses are tuples   *)
(* of one-character strings.  Coordinates are in tenths of a degree.       *)
(***************************************************************************)
EXTENDS Integers, Sequences, FiniteSets, TLC

VARIABLES
    pc,          \* "idle": no request in flight; "done": the handler returned
    req,         \* the request: [endpoint, args]
    upstream,    \* what the upstream does if it is called for this request
    resp,        \* the HTTP response: [status, body]
    exc,         \* the exception that escaped the handler, "none" if none
    calls,       \* the outbound GET attempts made for this request, in order
    fetched,     \* what safe_get returned to the handler, if it was called
    classified   \* whether the region classifier ran for this request

vars == <<pc, req, upstream, resp, exc, calls, fetched, classified>>

----------------------------------------------------------------------------
(* Bounds of the model *)

MaxFeatures == 2     \* longest upstream "features" list
MaxTokens == 3       \* longest feed body, in tokens
LatLo == 17          \* coordinate grid, whole degrees
LatHi == 50
LonWest == 163       \* the grid runs from -LonWest to -LonEast degrees
LonEast == 65

----------------------------------------------------------------------------
(* Python and JSON values *)

None == <<"None", <<>>>>
Str(s) == <<"str", s>>
Num(n) == <<"num", n>>
Obj(f) == <<"obj", f>>
Arr(s) == <<"arr", s>>
Text == <<"text", <<>>>>

Tag(x) == x[1]
Val(x) == x[2]

EmptyDict == Obj(<<>>)

\* dict.get(k, default), for d a dict
DictGetNoDefault(d, k, default) ==
    IF k \in DOMAIN Val(d) THEN Val(d)[k] ELSE None
DictGet(d, k, default) == IF k \in DOMAIN Val(d) THEN Val(d)[k] ELSE default

\* `not x` for x None or a str
NotStrNoneOnly(x) == Tag(x) = "None"
NotStr(x) == Tag(x) = "None" \/ (Tag(x) = "str" /\ Val(x) = <<>>)

\* request.args.get(k): the value of the query parameter, None when absent
ArgsGet(args, k) == IF k \in DOMAIN args THEN Str(args[k]) ELSE None

----------------------------------------------------------------------------
(* safe_get *)

NoUpstream == [kind |-> "none", status |-> 0, body |-> None]

\* a requests.Response: <<"Response", [status, body]>>
Response(u) == <<"Response", [status |-> u.status, body |-> u.body]>>
Body(r) == Val(r).body

\* Response.raise_for_status raises HTTPError for 400 <= status < 600 only:
\* a 3xx that requests does not follow (300, 304, a redirect status without
\* a Location header) reaches the caller as a response
RaisesForStatus(r) == 400 <= r.status /\ r.status < 600

\* safe_get(url) when the upstream does u: one requests.get; any Exception
\* (connection failure, timeout, the HTTPError of raise_for_status) gives
\* None, otherwise the response.  gets: the GET attempts it made.
SafeGet(url, u) ==
    [ret |-> IF u.kind = "response" /\ ~RaisesForStatus(u)
             THEN Response(u) ELSE None,
     gets |-> <<url>>]

\* safe_get was not called
NotCalled == [ret |-> <<"not called", <<>>>>, gets |-> <<>>]

\* `not resp` for resp None or a Response, whose truth value is Response.ok
NotResp(r) == Tag(r) = "None" \/ RaisesForStatus(Val(r))

\* resp.json() raises on a body that is not JSON
JsonRaises(r) == Tag(Body(r)) = "text"

----------------------------------------------------------------------------
(* What a handler produces *)

\* return jsonify(body), status; get is the call of safe_get made, if any
Out(status, body, get) ==
    [resp |-> [status |-> status, body |-> body], exc |-> "none",
     calls |-> get.gets, fetched |-> get.ret, classified |-> FALSE]

\* An exception that leaves the handler: Flask answers 500
Unhandled(e, get) ==
    [resp |-> [status |-> 500, body |-> [html |-> "Internal Server Error"]],
     exc |-> e, calls |-> get.gets, fetched |-> get.ret,
     classified |-> FALSE]

MissingParams == [error |-> "lat and lon are required"]

----------------------------------------------------------------------------
(* GET /api/weather *)

GetWeather(args, u) ==
    LET lat == ArgsGet(args, "lat")
        lon == ArgsGet(args, "lon")
        get == SafeGet("https://api.open-meteo.com/v1/forecast", u)
        r == get.ret
    IN  IF NotStr(lat) \/ NotStr(lon)
        THEN Out(400, MissingParams, NotCalled)
        ELSE IF NotResp(r)
        THEN Out(502, [current |-> None, source |-> "open-meteo",
                       note |-> "unavailable"], get)
        ELSE IF JsonRaises(r) THEN Unhandled("JSONDecodeError", get)
        ELSE IF Tag(Body(r)) # "obj" THEN Unhandled("AttributeError", get)
        ELSE Out(200, [current |-> DictGet(Body(r), "current", EmptyDict),
                       source |-> "open-meteo"], get)

----------------------------------------------------------------------------
(* GET /api/alerts *)

\* f.get / props.get raise AttributeError unless f and props are dicts
ProjectionRaises(f) ==
    \/ Tag(f) # "obj"
    \/ Tag(DictGet(f, "properties", EmptyDict)) # "obj"

\* the record appended for one feature
Project(f) ==
    LET props == DictGet(f, "properties", EmptyDict)
    IN  [id |-> DictGet(f, "id", None),
         event |-> DictGet(props, "event", None),
         headline |-> DictGet(props, "headline", None),
         areaDesc |-> DictGet(props, "areaDesc", None),
         severity |-> DictGet(props, "severity", None),
         urgency |-> DictGet(props, "urgency", None),
         effective |-> DictGet(props, "effective", None),
         expires |-> DictGet(props, "expires", None),
         instruction |-> DictGet(props, "instruction", None)]

\* `for f in features` raises TypeError unless features is iterable: a
\* list, a dict (its keys) or a str (its characters)
IterRaises(x) == Tag(x) \notin {"arr", "obj", "str"}

RECURSIVE KeySeq(_)
KeySeq(S) ==
    IF S = {} THEN <<>>
    ELSE LET k == CHOOSE k \in S : TRUE IN <<Str(k)>> \o KeySeq(S \ {k})

Iter(x) ==
    CASE Tag(x) = "arr" -> Val(x)
      [] Tag(x) = "obj" -> KeySeq(DOMAIN Val(x))
      [] Tag(x) = "str" -> [i \in 1..Len(Val(x)) |-> Str(<<Val(x)[i]>>)]

\* the loop body over the features, appending to alerts until one raises
RECURSIVE ProjectLoop(_, _)
ProjectLoop(features, alerts) ==
    IF features = <<>> THEN [raised |-> FALSE, alerts |-> alerts]
    ELSE IF ProjectionRaises(Head(features))
    THEN [raised |-> TRUE, alerts |-> alerts]
    ELSE ProjectLoop(Tail(features), Append(alerts, Project(Head(features))))

\* `except Exception: alerts = []`
ExceptKeepPartial(alerts) == alerts
ExceptClause(alerts) == <<>>

\* the try block, from the response to the alerts list
ParseAlerts(r) ==
    IF JsonRaises(r) \/ Tag(Body(r)) # "obj" THEN ExceptClause(<<>>)
    ELSE LET features == DictGet(Body(r), "features", Arr(<<>>))
         IN  IF IterRaises(features) THEN ExceptClause(<<>>)
             ELSE LET loop == ProjectLoop(Iter(features), <<>>)
                  IN  IF loop.raised THEN ExceptClause(loop.alerts)
                      ELSE loop.alerts

\* the status of the alerts response: the default, whatever safe_get gave
AlertsStatus502(nws) == IF NotResp(nws) THEN 502 ELSE 200
AlertsStatus(nws) == 200

GetAlerts(args, u) ==
    LET lat == ArgsGet(args, "lat")
        lon == ArgsGet(args, "lon")
        get == SafeGet("https://api.weather.gov/alerts/active", u)
        nws == get.ret
        alerts == IF NotResp(nws) THEN <<>> ELSE ParseAlerts(nws)
    IN  IF NotStr(lat) \/ NotStr(lon)
        THEN Out(400, MissingParams, NotCalled)
        ELSE Out(AlertsStatus(nws), [alerts |-> alerts, source |-> "NWS"],
                 get)

----------------------------------------------------------------------------
(* Python str operations, on tuples of characters *)

Min(a, b) == IF a <= b THEN a ELSE b

\* s.find(sub): the lowest 0-based index where sub occurs in s, -1 if none
RECURSIVE FindFrom(_, _, _)
FindFrom(s, sub, i) ==
    IF i + Len(sub) > Len(s) THEN -1
    ELSE IF SubSeq(s, i + 1, i + Len(sub)) = sub THEN i
    ELSE FindFrom(s, sub, i + 1)

Find(s, sub) == FindFrom(s, sub, 0)

\* s[a:b] for a, b >= 0
Slice(s, a, b) == SubSeq(s, a + 1, Min(b, Len(s)))

\* s.split(sep)
RECURSIVE Split(_, _)
Split(s, sep) ==
    LET i == Find(s, sep)
    IN  IF i = -1 THEN <<s>>
        ELSE <<Slice(s, 0, i)>> \o Split(Slice(s, i + Len(sep), Len(s)), sep)

Whitespace == {" ", "\t", "\n", "\r"}

RECURSIVE LStrip(_)
LStrip(s) ==
    IF s # <<>> /\ Head(s) \in Whitespace THEN LStrip(Tail(s)) ELSE s

RECURSIVE RStrip(_)
RStrip(s) ==
    IF s # <<>> /\ s[Len(s)] \in Whitespace
    THEN RStrip(SubSeq(s, 1, Len(s) - 1)) ELSE s

\* s.strip()
StripNothing(s) == s
Strip(s) == RStrip(LStrip(s))

----------------------------------------------------------------------------
(* GET /api/amber *)

ItemTag == <<"<", "i", "t", "e", "m", ">">>
TitleOpen == <<"<", "t", "i", "t", "l", "e", ">">>
TitleClose == <<"<", "/", "t", "i", "t", "l", "e", ">">>
LinkOpen == <<"<", "l", "i", "n", "k", ">">>
LinkClose == <<"<", "/", "l", "i", "n", "k", ">">>
DescOpen == <<"<", "d", "e", "s", "c", "r", "i", "p", "t", "i", "o", "n", ">">>
DescClose ==
    <<"<", "/", "d", "e", "s", "c", "r", "i", "p", "t", "i", "o", "n", ">">>
Placeholder == <<"A", "M", "B", "E", "R", " ", "A", "l", "e", "r", "t">>

\* the body of the loop: one chunk to one item
ParseItem(chunk) ==
    LET title_start == Find(chunk, TitleOpen)
        title_end == Find(chunk, TitleClose)
        link_start == Find(chunk, LinkOpen)
        link_end == Find(chunk, LinkClose)
        desc_start == Find(chunk, DescOpen)
        desc_end == Find(chunk, DescClose)
    IN  [title |->
             IF title_start # -1 /\ title_end # -1
             THEN Strip(Slice(chunk, title_start + 7, title_end))
             ELSE Placeholder,
         link |->
             IF link_start # -1 /\ link_end # -1
             THEN Strip(Slice(chunk, link_start + 6, link_end))
             ELSE <<>>,
         description |->
             IF desc_start # -1 /\ desc_end # -1
             THEN Strip(Slice(chunk, desc_start + 13, desc_end))
             ELSE <<>>]

\* the items of a feed body: text.split("<item>")[1:], each chunk parsed
ParseFeed(text) ==
    LET chunks == Tail(Split(text, ItemTag))
    IN  [i \in 1..Len(chunks) |-> ParseItem(chunks[i])]

GetAmber(u) ==
    LET get == SafeGet("https://www.missingkids.org/feeds/amber.xml", u)
        r == get.ret
    IN  IF NotResp(r)
        THEN Out(502, [items |-> <<>>, source |-> "NCMEC",
                       note |-> "unavailable"], get)
        ELSE Out(200, [items |-> ParseFeed(Val(Body(r))), source |-> "NCMEC"],
                 get)

----------------------------------------------------------------------------
(* float(str) *)

DigitChars == <<"0", "1", "2", "3", "4", "5", "6", "7", "8", "9">>
DigitSet == {DigitChars[i] : i \in 1..10}
DigitVal(c) == (CHOOSE i \in 1..10 : DigitChars[i] = c) - 1

RECURSIVE IntVal(_)
IntVal(ds) ==
    IF ds = <<>> THEN 0
    ELSE 10 * IntVal(SubSeq(ds, 1, Len(ds) - 1)) + DigitVal(ds[Len(ds)])

AllDigits(ds) == \A i \in 1..Len(ds) : ds[i] \in DigitSet

\* A float is [k, v]: k = "num" with v in tenths, "nan", or "inf".
\* A string float() rejects gives k = "ValueError".
ValueError == [k |-> "ValueError", v |-> 0]

\* float(s): surrounding whitespace is dropped; an optional sign; then
\* nan, inf, infinity, or digits with an optional point.  The strings of the
\* model carry one digit after the point at most, no exponent, no
\* underscore, and the words in lower case.
ParseFloat(s) ==
    LET t == Strip(s)
        signed == t # <<>> /\ Head(t) \in {"+", "-"}
        neg == t # <<>> /\ Head(t) = "-"
        body == IF signed THEN Tail(t) ELSE t
        dot == Find(body, <<".">>)
        ip == IF dot = -1 THEN body ELSE Slice(body, 0, dot)
        fp == IF dot = -1 THEN <<>> ELSE Slice(body, dot + 1, Len(body))
        mag == 10 * IntVal(ip) + (IF fp = <<>> THEN 0 ELSE DigitVal(fp[1]))
    IN  IF body = <<"n", "a", "n">> THEN [k |-> "nan", v |-> 0]
        ELSE IF body \in { <<"i", "n", "f">>,
                           <<"i", "n", "f", "i", "n", "i", "t", "y">> }
        THEN [k |-> "inf", v |-> IF neg THEN -1 ELSE 1]
        ELSE IF AllDigits(ip) /\ AllDigits(fp) /\ (ip # <<>> \/ fp # <<>>)
        THEN [k |-> "num", v |-> IF neg THEN -mag ELSE mag]
        ELSE ValueError

\* lo <= x <= hi for a float x and finite lo, hi: false of nan and of inf
Between(lo, x, hi) == x.k = "num" /\ lo <= x.v /\ x.v <= hi

----------------------------------------------------------------------------
(* GET /api/crime: the region classifier *)

Box(latLo, latHi, lonLo, lonHi, label) ==
    [latLo |-> latLo, latHi |-> latHi, lonLo |-> lonLo, lonHi |-> lonHi,
     label |-> label]

\* the conditions of the if/elif chain, in source order, in tenths of a degree
Boxes ==
    << Box(245, 310, -876, -800, <<"F", "L">>),
       Box(300, 350, -880, -800, <<"G", "A">>),
       Box(320, 350, -880, -800, <<"S", "C">>),
       Box(330, 360, -840, -750, <<"N", "C">>),
       Box(360, 390, -840, -750, <<"V", "A">>),
       Box(380, 400, -790, -750, <<"M", "D">>),
       Box(390, 420, -800, -740, <<"P", "A">>),
       Box(400, 450, -790, -710, <<"N", "Y">>),
       Box(410, 420, -730, -710, <<"C", "T">>),
       Box(410, 430, -720, -700, <<"M", "A">>),
       Box(430, 450, -720, -700, <<"V", "T">>),
       Box(430, 470, -710, -660, <<"M", "E">>),
       Box(400, 420, -750, -730, <<"N", "J">>),
       Box(380, 400, -750, -730, <<"D", "E">>),
       Box(310, 370, -1140, -1090, <<"A", "Z">>),
       Box(310, 370, -1150, -1080, <<"A", "Z">>),
       Box(310, 370, -1090, -1030, <<"N", "M">>),
       Box(250, 360, -1060, -930, <<"T", "X">>),
       Box(330, 370, -940, -890, <<"A", "R">>),
       Box(300, 350, -940, -880, <<"L", "A">>),
       Box(300, 350, -910, -880, <<"M", "S">>),
       Box(300, 350, -880, -840, <<"A", "L">>),
       Box(240, 310, -870, -800, <<"F", "L">>),
       Box(400, 420, -840, -800, <<"O", "H">>),
       Box(370, 400, -850, -810, <<"W", "V">>),
       Box(360, 390, -850, -810, <<"K", "Y">>),
       Box(350, 370, -900, -810, <<"T", "N">>),
       Box(380, 400, -880, -840, <<"I", "N">>),
       Box(370, 420, -910, -870, <<"I", "L">>),
       Box(400, 430, -960, -900, <<"I", "A">>),
       Box(420, 470, -970, -890, <<"W", "I">>),
       Box(430, 490, -970, -890, <<"M", "N">>),
       Box(400, 430, -1040, -950, <<"N", "E">>),
       Box(380, 400, -1020, -940, <<"K", "S">>),
       Box(350, 370, -1030, -940, <<"O", "K">>),
       Box(360, 420, -1200, -1140, <<"N", "V">>),
       Box(320, 420, -1240, -1140, <<"C", "A">>),
       Box(450, 490, -1250, -1160, <<"W", "A">>),
       Box(420, 460, -1250, -1160, <<"O", "R">>),
       Box(400, 450, -1110, -1040, <<"C", "O">>),
       Box(410, 450, -1120, -1040, <<"U", "T">>),
       Box(420, 490, -1170, -1040, <<"M", "T">>),
       Box(440, 490, -1170, -1040, <<"N", "D">>),
       Box(430, 460, -1040, -960, <<"S", "D">>),
       Box(400, 430, -1040, -950, <<"W", "Y">>),
       Box(450, 490, -1250, -660, <<"A", "K">>),
       Box(180, 220, -1620, -1540, <<"H", "I">>) >>

\* the box tried when the chain set no region
PhoenixBox == Box(330, 340, -1125, -1110, <<"A", "Z">>)

\* one condition of the chain
InBox(b, lat_f, lon_f) ==
    Between(b.latLo, lat_f, b.latHi) /\ Between(b.lonLo, lon_f, b.lonHi)

\* if ... elif ...: the first condition that holds sets state_abbr
RECURSIVE IfChain(_, _, _)
IfChain(boxes, lat_f, lon_f) ==
    IF boxes = <<>> THEN None
    ELSE IF InBox(boxes[Len(boxes)], lat_f, lon_f)
    THEN Str(boxes[Len(boxes)].label)
    ELSE IfChain(SubSeq(boxes, 1, Len(boxes) - 1), lat_f, lon_f)
RECURSIVE ElifChain(_, _, _)
ElifChain(boxes, lat_f, lon_f) ==
    IF boxes = <<>> THEN None
    ELSE IF InBox(Head(boxes), lat_f, lon_f) THEN Str(Head(boxes).label)
    ELSE ElifChain(Tail(boxes), lat_f, lon_f)

\* state_abbr after the chain and the catch-all
StateAbbr(lat_f, lon_f) ==
    LET main == ElifChain(Boxes, lat_f, lon_f)
    IN  IF main = None /\ InBox(PhoenixBox, lat_f, lon_f)
        THEN Str(PhoenixBox.label)
        ELSE main

----------------------------------------------------------------------------
(* GET /api/crime: the statistics *)

Rates(h, r, a, b, l, m, v, p) ==
    [homicide |-> h, robbery |-> r, aggravated_assault |-> a,
     burglary |-> b, larceny |-> l, motor_vehicle_theft |-> m,
     violent_crime |-> v, property_crime |-> p]

RateRows ==
    { <<<<"N", "Y">>, Rates(5, 120, 180, 280, 1200, 150, 305, 1630)>>,
      <<<<"C", "A">>, Rates(4, 95, 220, 320, 1400, 280, 319, 2000)>>,
      <<<<"T", "X">>, Rates(6, 110, 250, 350, 1100, 200, 366, 1650)>>,
      <<<<"F", "L">>, Rates(7, 130, 200, 300, 1000, 180, 337, 1480)>>,
      <<<<"A", "Z">>, Rates(8, 140, 280, 400, 900, 250, 428, 1550)>>,
      <<<<"I", "L">>, Rates(9, 150, 300, 450, 800, 220, 459, 1470)>>,
      <<<<"P", "A">>, Rates(5, 100, 180, 250, 700, 150, 285, 1100)>>,
      <<<<"O", "H">>, Rates(6, 110, 200, 280, 750, 160, 316, 1190)>>,
      <<<<"G", "A">>, Rates(7, 120, 220, 320, 850, 180, 347, 1350)>>,
      <<<<"N", "C">>, Rates(6, 105, 190, 270, 720, 140, 301, 1130)>>,
      <<<<"M", "I">>, Rates(8, 125, 240, 350, 780, 200, 373, 1330)>>,
      <<<<"N", "J">>, Rates(4, 90, 160, 220, 650, 120, 254, 990)>>,
      <<<<"V", "A">>, Rates(5, 95, 170, 240, 680, 130, 270, 1050)>>,
      <<<<"W", "A">>, Rates(4, 85, 150, 200, 600, 110, 239, 910)>>,
      <<<<"M", "A">>, Rates(3, 80, 140, 180, 550, 100, 223, 830)>>,
      <<<<"T", "N">>, Rates(7, 115, 210, 290, 760, 170, 332, 1220)>>,
      <<<<"I", "N">>, Rates(6, 100, 180, 260, 700, 150, 286, 1110)>>,
      <<<<"M", "O">>, Rates(8, 130, 250, 340, 820, 190, 388, 1350)>>,
      <<<<"M", "D">>, Rates(9, 140, 270, 380, 900, 210, 419, 1490)>>,
      <<<<"W", "I">>, Rates(5, 90, 160, 220, 620, 120, 255, 960)>>,
      <<<<"C", "O">>, Rates(4, 85, 150, 200, 580, 110, 239, 890)>>,
      <<<<"M", "N">>, Rates(3, 75, 130, 180, 520, 100, 208, 800)>>,
      <<<<"S", "C">>, Rates(8, 125, 230, 320, 800, 180, 363, 1300)>>,
      <<<<"A", "L">>, Rates(9, 135, 260, 360, 850, 200, 404, 1420)>>,
      <<<<"L", "A">>, Rates(12, 160, 320, 420, 950, 250, 492, 1620)>>,
      <<<<"K", "Y">>, Rates(6, 105, 190, 270, 720, 150, 301, 1140)>>,
      <<<<"O", "R">>, Rates(4, 80, 140, 190, 560, 110, 224, 860)>>,
      <<<<"O", "K">>, Rates(7, 115, 220, 300, 750, 170, 342, 1220)>>,
      <<<<"C", "T">>, Rates(3, 70, 120, 160, 480, 90, 193, 730)>>,
      <<<<"U", "T">>, Rates(2, 60, 100, 140, 400, 80, 162, 620)>>,
      <<<<"I", "A">>, Rates(2, 55, 90, 120, 350, 70, 147, 540)>>,
      <<<<"N", "V">>, Rates(6, 110, 200, 280, 700, 160, 316, 1140)>>,
      <<<<"A", "R">>, Rates(8, 125, 240, 330, 780, 180, 373, 1290)>>,
      <<<<"M", "S">>, Rates(10, 145, 280, 380, 900, 220, 435, 1500)>>,
      <<<<"K", "S">>, Rates(5, 90, 160, 220, 620, 130, 255, 970)>>,
      <<<<"N", "M">>, Rates(8, 130, 250, 340, 800, 190, 388, 1330)>>,
      <<<<"N", "E">>, Rates(3, 65, 110, 150, 420, 90, 178, 660)>>,
      <<<<"W", "V">>, Rates(6, 100, 180, 250, 680, 140, 286, 1070)>>,
      <<<<"I", "D">>, Rates(2, 50, 80, 110, 320, 60, 132, 490)>>,
      <<<<"H", "I">>, Rates(2, 45, 70, 100, 280, 50, 117, 430)>>,
      <<<<"N", "H">>, Rates(1, 40, 60, 80, 240, 40, 101, 360)>>,
      <<<<"M", "E">>, Rates(1, 35, 50, 70, 200, 35, 86, 305)>>,
      <<<<"M", "T">>, Rates(2, 45, 70, 90, 260, 50, 117, 400)>>,
      <<<<"R", "I">>, Rates(2, 50, 80, 100, 300, 60, 132, 460)>>,
      <<<<"D", "E">>, Rates(4, 70, 120, 160, 480, 100, 194, 740)>>,
      <<<<"S", "D">>, Rates(2, 40, 60, 80, 220, 40, 102, 340)>>,
      <<<<"N", "D">>, Rates(1, 30, 40, 60, 160, 30, 71, 250)>>,
      <<<<"A", "K">>, Rates(4, 60, 100, 120, 360, 80, 164, 560)>>,
      <<<<"V", "T">>, Rates(1, 25, 35, 50, 140, 25, 61, 215)>>,
      <<<<"W", "Y">>, Rates(1, 20, 30, 40, 120, 20, 51, 180)>> }

\* state_crime_rates, a dict keyed by the state code
StateCrimeRates ==
    Obj([k \in {row[1] : row \in RateRows} |->
            (CHOOSE row \in RateRows : row[1] = k)[2]])

\* the default of state_crime_rates.get
DefaultRates == Rates(5, 100, 180, 250, 700, 150, 285, 1100)

DemoStats ==
    [homicide |-> 3, robbery |-> 55, aggravated_assault |-> 210,
     burglary |-> 230, larceny |-> 900, motor_vehicle_theft |-> 220,
     violent_crime |-> 420, property_crime |-> 1350, year |-> 2023]

\* the response for a state_abbr
CrimeBodyNoLookup(state_abbr) ==
    IF ~NotStr(state_abbr) /\ Len(Val(state_abbr)) = 2
    THEN [scope |-> "state", source |-> "mock", state |-> state_abbr,
          stats |-> DefaultRates]
    ELSE [scope |-> "demo", source |-> "demo", state |-> state_abbr,
          stats |-> DemoStats]
CrimeBody(state_abbr) ==
    IF ~NotStr(state_abbr) /\ Len(Val(state_abbr)) = 2
    THEN [scope |-> "state", source |-> "mock", state |-> state_abbr,
          stats |-> DictGet(StateCrimeRates, Val(state_abbr), DefaultRates)]
    ELSE [scope |-> "demo", source |-> "demo", state |-> state_abbr,
          stats |-> DemoStats]

GetCrime(args) ==
    LET lat == ArgsGet(args, "lat")
        lon == ArgsGet(args, "lon")
        lat_f == ParseFloat(Val(lat))
        lon_f == ParseFloat(Val(lon))
    IN  IF NotStr(lat) \/ NotStr(lon)
        THEN Out(400, MissingParams, NotCalled)
        ELSE IF lat_f = ValueError \/ lon_f = ValueError
        THEN Unhandled("ValueError", NotCalled)
        ELSE [Out(200, CrimeBody(StateAbbr(lat_f, lon_f)), NotCalled)
                 EXCEPT !.classified = TRUE]

----------------------------------------------------------------------------
(* Inputs *)

\* query strings: absent, empty, a number, not a number
ArgValues == { <<>>, <<"3", "3", ".", "5">>, <<"a", "b", "c">> }
ArgSets ==
    UNION { [D -> ArgValues] : D \in SUBSET {"lat", "lon"} }

Failures == { [kind |-> k, status |-> 0, body |-> None] :
              k \in {"ConnectionError", "Timeout"} }
Statuses == {200, 300, 404, 503}
Responses(bodies) ==
    { [kind |-> "response", status |-> s, body |-> b] :
      s \in Statuses, b \in bodies }

Snapshot == Obj([temperature_2m |-> Num(215), weather_code |-> Num(3)])
WeatherBodies ==
    { Text, None, Arr(<<>>), EmptyDict, Obj([latitude |-> Num(335)]),
      Obj([current |-> Snapshot]), Obj([current |-> None]),
      Obj([current |-> Num(1), latitude |-> Num(335)]) }
WeatherUpstreams == Failures \cup Responses(WeatherBodies)

Tornado == Str(<<"T">>)
Flood == Str(<<"F">>)
Features ==
    { Obj([id |-> Str(<<"1">>),
           properties |-> Obj([event |-> Tornado, headline |-> Tornado,
               areaDesc |-> Str(<<"A">>), severity |-> Str(<<"S">>),
               urgency |-> Str(<<"U">>), effective |-> Str(<<"0">>),
               expires |-> Str(<<"9">>), instruction |-> Str(<<"I">>)])]),
      Obj([id |-> Str(<<"2">>), properties |-> Obj([event |-> Flood])]),
      Obj([properties |-> Obj([headline |-> None, other |-> Num(1)])]),
      EmptyDict,
      Obj([id |-> Str(<<"3">>), properties |-> None]),
      Obj([id |-> Str(<<"4">>), properties |-> Arr(<<>>)]),
      Str(<<"x">>),
      None }
FeatureLists == UNION { [1..n -> Features] : n \in 0..MaxFeatures }
AlertBodies ==
    { Text, None, Arr(<<>>), EmptyDict, Obj([features |-> None]),
      Obj([features |-> EmptyDict]), Obj([features |-> Obj([a |-> Num(1)])]),
      Obj([features |-> Num(0)]), Obj([features |-> Str(<<>>)]),
      Obj([features |-> Str(<<"x", "y">>)]) }
    \cup { Obj([features |-> Arr(fs)]) : fs \in FeatureLists }
AlertUpstreams == Failures \cup Responses(AlertBodies)

\* feed bodies: up to MaxTokens pieces of markup and text, and the sample
SampleTitle ==
    <<"M", "i", "s", "s", "i", "n", "g", ":", " ", "J", "a", "n", "e", " ",
      "D", "o", "e">>
SampleLink == <<"h", "t", "t", "p", ":", "/", "/", "x">>
SampleDesc == <<"5", "y", "o", " ", "f", "e", "m", "a", "l", "e">>
ItemClose == <<"<", "/", "i", "t", "e", "m", ">">>
SampleBody ==
    ItemTag \o TitleOpen \o SampleTitle \o TitleClose \o LinkOpen
    \o SampleLink \o LinkClose \o DescOpen \o SampleDesc \o DescClose
    \o ItemClose

Tokens ==
    { ItemTag,
      TitleOpen \o <<" ", "J", " ", "D", "\n">> \o TitleClose,
      LinkOpen \o <<"u">> \o LinkClose,
      DescOpen \o <<"\t", "d">> \o DescClose,
      TitleOpen, TitleClose, LinkClose, DescOpen,
      <<" ", "z">> }

RECURSIVE Flatten(_)
Flatten(ts) == IF ts = <<>> THEN <<>> ELSE Head(ts) \o Flatten(Tail(ts))

FeedBodies ==
    { Flatten(ts) : ts \in UNION { [1..n -> Tokens] : n \in 0..MaxTokens } }
    \cup { SampleBody, SampleBody \o SampleBody }
FeedUpstreams ==
    Failures
    \cup { [kind |-> "response", status |-> 200, body |-> Str(b)] :
           b \in FeedBodies }
    \cup Responses({ Str(<<>>), Str(SampleBody) })

\* coordinates as the client writes them: a sign, the degrees, a point and
\* the tenths
RECURSIVE NatChars(_)
NatChars(n) ==
    IF n < 10 THEN <<DigitChars[n + 1]>>
    ELSE NatChars(n \div 10) \o <<DigitChars[(n % 10) + 1]>>

FormatTenths(v) ==
    LET a == IF v < 0 THEN -v ELSE v
    IN  (IF v < 0 THEN <<"-">> ELSE <<>>)
        \o NatChars(a \div 10) \o <<".">> \o NatChars(a % 10)

\* the grid: every half degree, and a tenth either side of the box edges
\* that are not whole degrees, so that every edge and every cell between
\* neighbouring edges holds a grid point
LatGrid ==
    {5 * h : h \in (2 * LatLo)..(2 * LatHi)} \cup {244, 245, 246}
LonGrid ==
    {-5 * h : h \in (2 * LonEast)..(2 * LonWest)}
    \cup {-877, -876, -875, -1126, -1125, -1124}

\* other spellings, and strings float() rejects
OtherNumbers ==
    { <<"3", "3">>, <<" ", "3", "3", ".", "5", "\n">>,
      <<"+", "3", "3", ".", "5">>, <<"-", "1", "1", "2">>,
      <<"n", "a", "n">>, <<"-", "i", "n", "f">> }
NotNumbers ==
    { <<"a", "b", "c">>, <<"3", "3", ",", "5">>, <<"1", ".", "2", ".", "3">>,
      <<"-">>, <<" ">>, <<".">> }

LatStrings ==
    {FormatTenths(v) : v \in LatGrid} \cup OtherNumbers \cup NotNumbers
    \cup {<<>>}
LonStrings ==
    {FormatTenths(v) : v \in LonGrid} \cup OtherNumbers \cup NotNumbers
    \cup {<<>>}
CrimeArgSets ==
    { [lat |-> a, lon |-> b] : a \in LatStrings, b \in LonStrings }
    \cup { [lat |-> a] : a \in {<<>>, <<"3", "3">>} }
    \cup { [lon |-> b] : b \in {<<>>, <<"3", "3">>} }
    \cup { <<>> }

----------------------------------------------------------------------------
(* The state machine *)

Init ==
    /\ pc = "idle"
    /\ req = [endpoint |-> "none", args |-> <<>>]
    /\ upstream = NoUpstream
    /\ resp = [status |-> 0, body |-> None]
    /\ exc = "none"
    /\ calls = <<>>
    /\ fetched = NotCalled.ret
    /\ classified = FALSE

\* a handler runs from the request to its return
Handle(endpoint, args, u, o) ==
    /\ pc' = "done"
    /\ req' = [endpoint |-> endpoint, args |-> args]
    /\ upstream' = u
    /\ resp' = o.resp
    /\ exc' = o.exc
    /\ calls' = o.calls
    /\ fetched' = o.fetched
    /\ classified' = o.classified

Weather ==
    /\ pc = "idle"
    /\ \E args \in ArgSets, u \in WeatherUpstreams :
           Handle("weather", args, u, GetWeather(args, u))

Alerts ==
    /\ pc = "idle"
    /\ \E args \in ArgSets, u \in AlertUpstreams :
           Handle("alerts", args, u, GetAlerts(args, u))

Amber ==
    /\ pc = "idle"
    /\ \E u \in FeedUpstreams : Handle("amber", <<>>, u, GetAmber(u))

Crime ==
    /\ pc = "idle"
    /\ \E args \in CrimeArgSets :
           Handle("crime", args, NoUpstream, GetCrime(args))

\* the response is sent and the request's values are discarded
Finish ==
    /\ pc = "done"
    /\ pc' = "idle"
    /\ req' = [endpoint |-> "none", args |-> <<>>]
    /\ upstream' = NoUpstream
    /\ resp' = [status |-> 0, body |-> None]
    /\ exc' = "none"
    /\ calls' = <<>>
    /\ fetched' = NotCalled.ret
    /\ classified' = FALSE

Next == Weather \/ Alerts \/ Amber \/ Crime \/ Finish

Spec == Init /\ [][Next]_vars

----------------------------------------------------------------------------
(* Properties *)

Done(e) == pc = "done" /\ req.endpoint = e

\* a query parameter is missing: absent, or the empty string
Missing(k) == k \notin DOMAIN req.args \/ req.args[k] = <<>>

Unavailable == Tag(fetched) = "None"
Fetched == Tag(fetched) = "Response"

\* C1: on weather, alerts and crime, a request missing lat or lon (absent or
\* empty) is answered 400 with a JSON error body, with no upstream call and
\* no region classification.
C1_MissingParamsRejected ==
    ( /\ pc = "done"
      /\ req.endpoint \in {"weather", "alerts", "crime"}
      /\ (Missing("lat") \/ Missing("lon")) )
    => /\ resp.status = 400
       /\ DOMAIN resp.body = {"error"}
       /\ exc = "none"
       /\ calls = <<>>
       /\ ~Unavailable /\ ~Fetched
       /\ ~classified

C1_Witness ==
    /\ Done("crime")
    /\ ~Missing("lat")
    /\ "lon" \in DOMAIN req.args /\ req.args["lon"] = <<>>
    /\ resp.status = 400

\* C2: when safe_get reports unavailable (None) for a request with valid
\* parameters, weather answers 502 with current null and note "unavailable",
\* the feed answers 502 with no items and note "unavailable", and alerts
\* answers 200 with no alerts; alerts never answers 502.
C2_UnavailableMapping ==
    /\ (Done("weather") /\ Unavailable)
       => /\ resp.status = 502
          /\ DOMAIN resp.body = {"current", "source", "note"}
          /\ resp.body.current = None
          /\ resp.body.source = "open-meteo"
          /\ resp.body.note = "unavailable"
    /\ (Done("amber") /\ Unavailable)
       => /\ resp.status = 502
          /\ DOMAIN resp.body = {"items", "source", "note"}
          /\ resp.body.items = <<>>
          /\ resp.body.source = "NCMEC"
          /\ resp.body.note = "unavailable"
    /\ (Done("alerts") /\ Unavailable)
       => /\ resp.status = 200
          /\ DOMAIN resp.body = {"alerts", "source"}
          /\ resp.body.alerts = <<>>
    /\ Done("alerts") => resp.status # 502

C2_Witness ==
    /\ Done("alerts")
    /\ upstream.kind = "Timeout"
    /\ Unavailable
    /\ resp.status = 200

\* C3: a call of safe_get makes exactly one GET attempt and gives the 2xx
\* response or None, whatever the upstream does (connection failure,
\* timeout, non-2xx status, success); nothing is raised and nothing retried,
\* so a request causes at most one upstream call.
C3_OneAttemptTwoOutcomes ==
    pc = "done"
    => /\ Len(calls) <= 1
       /\ exc \notin {"ConnectionError", "Timeout", "HTTPError"}
       /\ (Unavailable \/ Fetched)
          => /\ Len(calls) = 1
             /\ Fetched <=> (upstream.kind = "response"
                             /\ upstream.status \in 200..299)
             /\ Unavailable <=> ~(upstream.kind = "response"
                                  /\ upstream.status \in 200..299)

\* C4: on weather, alerts and the feed, whatever the upstream does,
\* including a 2xx body that is not JSON or is JSON of another shape, the
\* request ends in one of the endpoint's responses: no exception leaves the
\* handler.
C4_NoUnhandledException ==
    (pc = "done" /\ req.endpoint \in {"weather", "alerts", "amber"})
    => /\ exc = "none"
       /\ resp.status \in {200, 400, 502}

\* C5: weather, when safe_get gave a response whose JSON is an object:
\* 200, source "open-meteo", current equal to the upstream's "current"
\* value, or the empty mapping when the upstream has no "current" key, and
\* no note.
C5_WeatherPassThrough ==
    (Done("weather") /\ Fetched /\ Tag(upstream.body) = "obj")
    => /\ resp.status = 200
       /\ DOMAIN resp.body = {"current", "source"}
       /\ resp.body.source = "open-meteo"
       /\ resp.body.current =
              IF "current" \in DOMAIN Val(upstream.body)
              THEN Val(upstream.body)["current"]
              ELSE Obj(<<>>)

C5_Witness ==
    /\ Done("weather")
    /\ Fetched
    /\ Tag(upstream.body) = "obj"
    /\ "current" \notin DOMAIN Val(upstream.body)
    /\ resp.body.current = Obj(<<>>)

\* the nine fields of an alert record, for a feature whose projection does
\* not fail: each the upstream's value, None where the upstream omits it
PropKeys ==
    {"event", "headline", "areaDesc", "severity", "urgency", "effective",
     "expires", "instruction"}

Field(obj, k) == IF k \in DOMAIN Val(obj) THEN Val(obj)[k] ELSE None

IsRecordOf(alert, f) ==
    LET props == IF "properties" \in DOMAIN Val(f)
                 THEN Val(f)["properties"] ELSE Obj(<<>>)
    IN  /\ DOMAIN alert = PropKeys \cup {"id"}
        /\ alert["id"] = Field(f, "id")
        /\ \A k \in PropKeys : alert[k] = Field(props, k)

UpstreamFeatures == Val(Val(upstream.body)["features"])

HasFeatureList ==
    /\ Tag(upstream.body) = "obj"
    /\ "features" \in DOMAIN Val(upstream.body)
    /\ Tag(Val(upstream.body)["features"]) = "arr"

\* C6: alerts is all-or-nothing: if projecting any feature of the upstream
\* list fails, the alerts list is empty, never a prefix; otherwise it has
\* one record per feature, in upstream order, with the nine fields, each
\* None where the upstream omits it.
C6_AlertsAllOrNothing ==
    (Done("alerts") /\ Fetched /\ HasFeatureList)
    => /\ resp.status = 200
       /\ IF \E i \in 1..Len(UpstreamFeatures) :
                ProjectionRaises(UpstreamFeatures[i])
          THEN resp.body.alerts = <<>>
          ELSE /\ Len(resp.body.alerts) = Len(UpstreamFeatures)
               /\ \A i \in 1..Len(UpstreamFeatures) :
                      IsRecordOf(resp.body.alerts[i], UpstreamFeatures[i])

\* a well-formed feature first, a malformed one after it
C6_Witness ==
    /\ Done("alerts")
    /\ Fetched
    /\ HasFeatureList
    /\ Len(UpstreamFeatures) = 2
    /\ ~ProjectionRaises(UpstreamFeatures[1])
    /\ ProjectionRaises(UpstreamFeatures[2])
    /\ resp.body.alerts = <<>>

\* where sub occurs in s, as 0-based offsets
Occurrences(s, sub) ==
    {i \in 0..(Len(s) - Len(sub)) : SubSeq(s, i + 1, i + Len(sub)) = sub}

Earliest(S) == CHOOSE i \in S : \A j \in S : i <= j
Latest(S) == CHOOSE i \in S : \A j \in S : j <= i

\* s without its leading and trailing whitespace
Trimmed(s) ==
    LET I == {i \in 1..Len(s) : s[i] \notin Whitespace}
    IN  IF I = {} THEN <<>> ELSE SubSeq(s, Earliest(I), Latest(I))

\* the trimmed text between the first open and the first close tag of the
\* chunk; missing when either tag is absent
Enclosed(chunk, open, close, missing) ==
    LET O == Occurrences(chunk, open)
        C == Occurrences(chunk, close)
    IN  IF O = {} \/ C = {} THEN missing
        ELSE Trimmed(SubSeq(chunk, Earliest(O) + Len(open) + 1, Earliest(C)))

\* the text after the k-th "<item>" of the body, up to the next one
ChunkAfter(body, k) ==
    LET O == Occurrences(body, ItemTag)
        at(n) == CHOOSE i \in O : Cardinality({j \in O : j < i}) = n - 1
    IN  SubSeq(body, at(k) + Len(ItemTag) + 1,
               IF k < Cardinality(O) THEN at(k + 1) ELSE Len(body))

\* C7: the feed, on a successful fetch: one item per occurrence of "<item>"
\* in the body, in body order; title is the trimmed text between the first
\* "<title>" and the first "</title>" of the chunk, "AMBER Alert" when
\* either is absent; link and description likewise, empty when either tag
\* is absent.  The sample body yields exactly the sample item.
C7_FeedParsing ==
    (Done("amber") /\ Fetched)
    => LET body == Val(upstream.body)
           items == resp.body.items
       IN  /\ resp.status = 200
           /\ Len(items) = Cardinality(Occurrences(body, ItemTag))
           /\ \A k \in 1..Len(items) :
                  LET chunk == ChunkAfter(body, k)
                  IN  items[k] =
                          [title |-> Enclosed(chunk, TitleOpen, TitleClose,
                                              Placeholder),
                           link |-> Enclosed(chunk, LinkOpen, LinkClose, <<>>),
                           description |->
                               Enclosed(chunk, DescOpen, DescClose, <<>>)]
           /\ body = SampleBody
              => items = <<[title |-> SampleTitle, link |-> SampleLink,
                            description |-> SampleDesc]>>

C7_Witness ==
    /\ Done("amber")
    /\ Fetched
    /\ Val(upstream.body) = SampleBody
    /\ resp.body.items = <<[title |-> SampleTitle, link |-> SampleLink,
                            description |-> SampleDesc]>>

\* the coordinate of a crime request whose parameters both parse
LatF == ParseFloat(req.args["lat"])
LonF == ParseFloat(req.args["lon"])
Numeric ==
    /\ Done("crime")
    /\ ~Missing("lat") /\ ~Missing("lon")
    /\ LatF # ValueError /\ LonF # ValueError

\* the coordinate lies in the closed latitude and longitude intervals
Contains(b, lat, lon) ==
    /\ lat.k = "num" /\ lon.k = "num"
    /\ b.latLo <= lat.v /\ lat.v <= b.latHi
    /\ b.lonLo <= lon.v /\ lon.v <= b.lonHi

MatchingAt(lat, lon) ==
    {i \in 1..Len(Boxes) : Contains(Boxes[i], lat, lon)}
Matching == MatchingAt(LatF, LonF)

\* C8: the region is the label of the earliest box in source order that
\* contains the coordinate; the fallback box counts only when no box of the
\* main sequence does; otherwise the region is absent.  The region is thus
\* a function of the coordinate alone.
C8_FirstMatchWins ==
    Numeric
    => LET M == Matching
       IN  /\ classified
           /\ resp.body.state =
                  IF M # {} THEN Str(Boxes[Earliest(M)].label)
                  ELSE IF Contains(PhoenixBox, LatF, LonF)
                  THEN Str(<<"A", "Z">>)
                  ELSE None

\* a coordinate inside two boxes with different labels
C8_Witness ==
    /\ Numeric
    /\ LET M == Matching
       IN  \E i, j \in M :
               /\ i < j
               /\ Boxes[i].label # Boxes[j].label
               /\ resp.body.state = Str(Boxes[Earliest(M)].label)

CountKeys ==
    {"homicide", "robbery", "aggravated_assault", "burglary", "larceny",
     "motor_vehicle_theft", "violent_crime", "property_crime"}

\* C9: for a numeric coordinate, a region in the statistics table gives
\* scope "state", source "mock", the region, and its table entry (eight
\* counts, no year); no region gives scope "demo", source "demo", a null
\* region and the demo record, which has a year.
C9_CrimeOutput ==
    Numeric
    => LET region == StateAbbr(LatF, LonF)
       IN  /\ resp.status = 200
           /\ DOMAIN resp.body = {"scope", "source", "state", "stats"}
           /\ resp.body.state = region
           /\ (region # None /\ Val(region) \in DOMAIN Val(StateCrimeRates))
              => /\ resp.body.scope = "state"
                 /\ resp.body.source = "mock"
                 /\ resp.body.stats = Val(StateCrimeRates)[Val(region)]
                 /\ DOMAIN resp.body.stats = CountKeys
           /\ region = None
              => /\ resp.body.scope = "demo"
                 /\ resp.body.source = "demo"
                 /\ DOMAIN resp.body.stats = CountKeys \cup {"year"}
                 /\ resp.body.stats.year = 2023
                 /\ \A k \in CountKeys : resp.body.stats[k] = DemoStats[k]

C9_Witness ==
    /\ Numeric
    /\ resp.body.state = Str(<<"T", "X">>)
    /\ resp.body.stats = Rates(6, 110, 250, 350, 1100, 200, 366, 1650)

\* C10: crime, with lat and lon both present and at least one not parsable
\* as a float: the request fails with a client error (4xx).
C10_NonNumericIsClientError ==
    ( /\ Done("crime")
      /\ ~Missing("lat") /\ ~Missing("lon")
      /\ (LatF = ValueError \/ LonF = ValueError) )
    => resp.status \in 400..499

\* the codes whose boxes lie inside a box tried earlier, with that box's code
Shadowed ==
    { << <<"S", "C">>, <<"G", "A">> >>, << <<"A", "L">>, <<"G", "A">> >>,
      << <<"C", "T">>, <<"N", "Y">> >>, << <<"N", "J">>, <<"N", "Y">> >>,
      << <<"M", "S">>, <<"L", "A">> >>, << <<"N", "D">>, <<"M", "T">> >>,
      << <<"W", "Y">>, <<"N", "E">> >> }

\* box a lies inside box b
Inside(a, b) ==
    /\ b.latLo <= a.latLo /\ a.latHi <= b.latHi
    /\ b.lonLo <= a.lonLo /\ a.lonHi <= b.lonHi

\* C11: the crime endpoint never resolves to SC, CT, NJ, MS, AL, ND or WY:
\* each of their boxes lies inside a box tried earlier (SC and AL in GA, CT
\* and NJ in NY, MS in LA, ND in MT, WY the same as NE); and the fallback
\* (Phoenix) box lies inside the first AZ box, so the fallback never resolves
\* a region the main sequence left absent.
C11_ShadowedBoxes ==
    /\ \A p \in Shadowed :
           \A j \in 1..Len(Boxes) :
               Boxes[j].label = p[1]
               => \E i \in 1..(j - 1) :
                      Boxes[i].label = p[2] /\ Inside(Boxes[j], Boxes[i])
    /\ Inside(PhoenixBox, Boxes[Earliest({i \in 1..Len(Boxes) :
                                             Boxes[i].label = <<"A", "Z">>})])
    /\ Numeric
       => LET M == Matching
          IN  /\ \A p \in Shadowed : resp.body.state # Str(p[1])
              /\ M = {} => resp.body.state = None
              /\ Contains(PhoenixBox, LatF, LonF) => M # {}

\* a coordinate inside the WY box, resolved to NE
C11_Witness ==
    /\ Numeric
    /\ \E j \in Matching : Boxes[j].label = <<"W", "Y">>
    /\ resp.body.state = Str(<<"N", "E">>)

====
